---- MODULE Spec2Model ----
(***************************************************************************)
(* Model of the Eos websocket log client: the key parser (EosKey), the log *)
(* entry (EosLogEntry), the log group accumulator (EosLogGroup) and the    *)
(* ingestion service (Eos) with its transport callbacks.                   *)
(*                                                                         *)
(* JavaScript values are tagged records, so that null, undefined, numbers, *)
(* strings, arrays and objects can be told apart the way the code does.    *)
(* A key source is a sequence of tokens: the separators ":", "/" and " "   *)
(* are tokens of their own, every other token is a run of letters.         *)
(* Wall-clock fields (receivedAt, firstReceivedAt, lastReceivedAt) are not *)
(* modelled.  Listeners registered on the emitter are taken to return      *)
(* normally: an emit only records the notification.                        *)
(***************************************************************************)
EXTENDS Integers, Sequences, FiniteSets, TLC

VARIABLES socket, connected, groups, readyState, op, err, emitted, lastCall

vars == <<socket, connected, groups, readyState, op, err, emitted, lastCall>>

(***************************************************************************)
(* Bounds of the model.                                                    *)
(***************************************************************************)
MaxEntries == 5
MaxSockets == 1
MaxLifecycleEntries == 7
MaxLifecycleSockets == 2
MaxKeyTail == 4

(***************************************************************************)
(* JavaScript values.                                                      *)
(***************************************************************************)
Undefined == [t |-> "undefined"]
Null == [t |-> "null"]
NaN == [t |-> "NaN"]
Str(s) == [t |-> "string", v |-> s]
Num(n) == [t |-> "number", v |-> n]
Arr(a) == [t |-> "array", v |-> a]
Obj(f) == [t |-> "object", f |-> f]

\* JavaScript truthiness, as used by `if (x)`, `!x` and `a && b`.
Truthy(x) ==
    CASE x.t = "undefined" -> FALSE
      [] x.t = "null" -> FALSE
      [] x.t = "NaN" -> FALSE
      [] x.t = "string" -> x.v # ""
      [] x.t = "number" -> x.v # 0
      [] OTHER -> TRUE

\* x.name (or x["name"]) raises a TypeError when x is null or undefined.
PropThrows(x) == x.t \in {"null", "undefined"}

\* The value of x.name when the read does not throw.
Prop(x, name) ==
    IF x.t = "object" /\ name \in DOMAIN x.f THEN x.f[name] ELSE Undefined

\* a + b for the operands performance accumulates (numbers, or a missing perf).
JsAdd(a, b) ==
    IF a.t = "number" /\ b.t = "number" THEN Num(a.v + b.v) ELSE NaN

(***************************************************************************)
(* EosKey: /^([a-z]+):\/\/([^:]+)/i over a token sequence.                 *)
(***************************************************************************)
Separators == {":", "/", " "}
IsLetters(tok) == tok \notin Separators

RECURSIVE Concat(_)
Concat(toks) == IF toks = <<>> THEN "" ELSE Head(toks) \o Concat(Tail(toks))

\* Length of the longest prefix of toks whose tokens all satisfy the class:
\* letters when letters = TRUE, anything but ":" otherwise.
RECURSIVE RunLen(_, _)
RunLen(toks, letters) ==
    IF toks = <<>> THEN 0
    ELSE IF (letters /\ IsLetters(Head(toks))) \/ (~letters /\ Head(toks) # ":")
         THEN 1 + RunLen(Tail(toks), letters)
         ELSE 0

Drop(toks, n) == SubSeq(toks, n + 1, Len(toks))

\* EosKeySchema.exec(source): the match, or ok = FALSE for no match.
EosKeySchema(source) ==
    LET n == RunLen(source, TRUE)
        afterSchema == Drop(source, n)
        sep == Len(afterSchema) >= 3 /\ SubSeq(afterSchema, 1, 3) = <<":", "/", "/">>
        afterSep == Drop(afterSchema, 3)
        k == RunLen(afterSep, FALSE)
    IN  IF n >= 1 /\ sep /\ k >= 1
        THEN [ok |-> TRUE,
              schema |-> Concat(SubSeq(source, 1, n)),
              key |-> Concat(SubSeq(afterSep, 1, k)),
              rest |-> Drop(afterSep, k)]
        ELSE [ok |-> FALSE]

\* String.prototype.trim on a token sequence.
RECURSIVE TrimLeft(_)
TrimLeft(toks) ==
    IF toks # <<>> /\ Head(toks) = " " THEN TrimLeft(Tail(toks)) ELSE toks

RECURSIVE TrimRight(_)
TrimRight(toks) ==
    IF toks # <<>> /\ toks[Len(toks)] = " "
    THEN TrimRight(SubSeq(toks, 1, Len(toks) - 1))
    ELSE toks

Trim(toks) == TrimRight(TrimLeft(toks))

\* String.prototype.split(":"): the pieces between the ":" tokens, as strings.
RECURSIVE Split(_, _)
Split(toks, cur) ==
    IF toks = <<>> THEN <<cur>>
    ELSE IF Head(toks) = ":" THEN <<cur>> \o Split(Tail(toks), "")
         ELSE Split(Tail(toks), cur \o Head(toks))

\* filter keeping every piece, the empty ones too.
FilterNonEmpty_KeepsAll(a) == a

\* Array.prototype.filter(function(x){ return x !== ""; })
RECURSIVE FilterNonEmpty(_)
FilterNonEmpty(a) ==
    IF a = <<>> THEN <<>>
    ELSE IF Head(a) # "" THEN <<Head(a)>> \o FilterNonEmpty(Tail(a))
         ELSE FilterNonEmpty(Tail(a))

\* Whether new EosKey(source) returns (source is a string here: it comes
\* from String.prototype.split).
EosKeyValid(source) == EosKeySchema(source).ok

\* new EosKey(source) for a source the constructor accepts.
EosKey(source) ==
    LET m == EosKeySchema(source)
    IN  [src |-> source,
         schema |-> m.schema,
         key |-> m.key,
         tags |-> Arr(FilterNonEmpty(Split(Trim(m.rest), "")))]

EosDefaultId == "--default--"
EosLoggingKey == EosKey(<<"log", ":", "/", "/", "eos">>)

(***************************************************************************)
(* EosLogEntry.                                                            *)
(***************************************************************************)
EmptyObject == Obj([name \in {} |-> Undefined])

\* Bodies of inbound frames (the text after the header line).
BodyG1Message == "{\"message\":\"m1\",\"eos-id\":\"g1\"}"
BodyG1Sql == "{\"eos-id\":\"g1\",\"sql\":\"SELECT 1\"}"
BodyDefault == "{\"message\":\"m2\"}"
BodyG2Perf == "{\"eos-id\":\"g2\",\"exception\":\"E\",\"time\":2,\"perf\":3}"
BodyProto == "{\"eos-id\":\"constructor\"}"
BodyGarbage == "not json"
BodyEmpty == ""
BodyNull == "null"
BodyNumber == "5"
BodyString == "\"text\""
BodyEos == "{\"message\":\"m3\",\"eos-id\":\"eos\"}"
BodyFalsyFields == "{\"eos-id\":\"g2\",\"exception\":null,\"sql\":\"\"}"
BodyTimeOnly == "{\"eos-id\":\"g2\",\"time\":2}"

\* JSON.parse(text) on the bodies above: ok = FALSE when it throws SyntaxError.
JSONparse(text) ==
    CASE text = BodyG1Message ->
           [ok |-> TRUE, value |-> Obj(("message" :> Str("m1")) @@ ("eos-id" :> Str("g1")))]
      [] text = BodyG1Sql ->
           [ok |-> TRUE, value |-> Obj(("eos-id" :> Str("g1")) @@ ("sql" :> Str("SELECT 1")))]
      [] text = BodyDefault ->
           [ok |-> TRUE, value |-> Obj("message" :> Str("m2"))]
      [] text = BodyG2Perf ->
           [ok |-> TRUE, value |-> Obj(("eos-id" :> Str("g2")) @@ ("exception" :> Str("E"))
                                        @@ ("time" :> Num(2)) @@ ("perf" :> Num(3)))]
      [] text = BodyProto ->
           [ok |-> TRUE, value |-> Obj("eos-id" :> Str("constructor"))]
      [] text = BodyEos ->
           [ok |-> TRUE, value |-> Obj(("message" :> Str("m3")) @@ ("eos-id" :> Str("eos")))]
      [] text = BodyFalsyFields ->
           [ok |-> TRUE, value |-> Obj(("eos-id" :> Str("g2")) @@ ("exception" :> Null)
                                        @@ ("sql" :> Str("")))]
      [] text = BodyTimeOnly ->
           [ok |-> TRUE, value |-> Obj(("eos-id" :> Str("g2")) @@ ("time" :> Num(2)))]
      [] text = BodyNull -> [ok |-> TRUE, value |-> Null]
      [] text = BodyNumber -> [ok |-> TRUE, value |-> Num(5)]
      [] text = BodyString -> [ok |-> TRUE, value |-> Str("text")]
      [] OTHER -> [ok |-> FALSE]

\* this.object as the constructor computes it from data.
EntryObject(data) ==
    IF data.t = "string"
    THEN IF JSONparse(data.v).ok THEN JSONparse(data.v).value ELSE EmptyObject
    ELSE data

\* The constructor raises a TypeError at this.object.message when
\* this.object is null or undefined.
EosLogEntryThrows(key, data) == PropThrows(EntryObject(data))

\* new EosLogEntry(key, data) when the constructor returns.
EosLogEntry(key, data) ==
    LET object == EntryObject(data)
    IN  [key |-> key,
         data |-> data,
         message |-> IF ~Truthy(Prop(object, "message")) THEN data
                     ELSE Prop(object, "message"),
         index |-> 1,
         object |-> object,
         _id |-> Prop(object, "eos-id")]

\* a && b
JsAnd(a, b) == IF Truthy(a) THEN b ELSE a

getId(entry) == IF Truthy(entry._id) THEN entry._id.v ELSE EosDefaultId

\* hasException testing the sql field, as hasSql does.
hasException_ChecksSql(entry) == JsAnd(entry.object, Prop(entry.object, "sql"))

hasException(entry) == JsAnd(entry.object, Prop(entry.object, "exception"))

hasSql(entry) == JsAnd(entry.object, Prop(entry.object, "sql"))

hasPerformanceLog(entry) == JsAnd(entry.object, Prop(entry.object, "time"))

(***************************************************************************)
(* EosLogGroup.                                                            *)
(***************************************************************************)
Contains(a, x) == \E i \in 1..Len(a) : a[i] = x

\* _.uniq(a): the first occurrence of every element, in order.
RECURSIVE Uniq(_, _)
Uniq(a, seen) ==
    IF a = <<>> THEN <<>>
    ELSE IF Head(a) \in seen THEN Uniq(Tail(a), seen)
         ELSE <<Head(a)>> \o Uniq(Tail(a), seen \cup {Head(a)})

RECURSIVE KeepIn(_, _)
KeepIn(a, b) ==
    IF a = <<>> THEN <<>>
    ELSE IF Contains(b, Head(a)) THEN <<Head(a)>> \o KeepIn(Tail(a), b)
         ELSE KeepIn(Tail(a), b)

\* _.intersection without the membership test on the second array.
Intersection_Unfiltered(a, b) == Uniq(a, {})

\* _.intersection(a, b)
Intersection(a, b) == KeepIn(Uniq(a, {}), b)

\* new EosLogGroup(id)
EosLogGroup(id) ==
    [id |-> id, items |-> <<>>, count |-> 0, sharedTags |-> Null,
     sqlCount |-> 0, errorsCount |-> 0, performance |-> Num(0)]

\* The shared-tags step with the entry's tags assigned where add intersects.
SharedTagsAfter_Overwrite(sharedTags, tags) ==
    IF Truthy(tags)
    THEN IF sharedTags.t = "null" THEN tags
         ELSE IF Len(sharedTags.v) = 0 THEN sharedTags
              ELSE tags
    ELSE sharedTags

\* The shared-tags step of add.
SharedTagsAfter(sharedTags, tags) ==
    IF Truthy(tags)
    THEN IF sharedTags.t = "null" THEN tags
         ELSE IF Len(sharedTags.v) = 0 THEN sharedTags
              ELSE Arr(Intersection(sharedTags.v, tags.v))
    ELSE sharedTags

\* add with count taken from items.length before the push.
add_CountBeforePush(group, entry) ==
    [id |-> group.id,
     count |-> Len(group.items),
     errorsCount |-> IF Truthy(hasException(entry)) THEN group.errorsCount + 1
                     ELSE group.errorsCount,
     sqlCount |-> IF Truthy(hasSql(entry)) THEN group.sqlCount + 1
                  ELSE group.sqlCount,
     performance |-> IF Truthy(hasPerformanceLog(entry))
                     THEN JsAdd(group.performance, Prop(entry.object, "perf"))
                     ELSE group.performance,
     sharedTags |-> SharedTagsAfter(group.sharedTags, entry.key.tags),
     items |-> Append(group.items, entry)]

\* EosLogGroup.prototype.add: the group after add(entry).
add(group, entry) ==
    [id |-> group.id,
     count |-> group.count + 1,
     errorsCount |-> IF Truthy(hasException(entry)) THEN group.errorsCount + 1
                     ELSE group.errorsCount,
     sqlCount |-> IF Truthy(hasSql(entry)) THEN group.sqlCount + 1
                  ELSE group.sqlCount,
     performance |-> IF Truthy(hasPerformanceLog(entry))
                     THEN JsAdd(group.performance, Prop(entry.object, "perf"))
                     ELSE group.performance,
     sharedTags |-> SharedTagsAfter(group.sharedTags, entry.key.tags),
     items |-> Append(group.items, entry)]

getSharedTags(group) ==
    IF Truthy(group.sharedTags) THEN group.sharedTags ELSE Arr(<<>>)

(***************************************************************************)
(* Eos: the ingestion service.                                             *)
(***************************************************************************)
NullSocket == 0
NoError == "none"
ParseError == "Cannot parse schema"
TypeError == "TypeError"

\* Names every plain object inherits; this.groups[name] is then a truthy
\* value that is not a group, and group.add is not a function.
ObjectPrototypeProps == {"constructor", "toString", "__proto__"}

Ev(name, arg) == [event |-> name, arg |-> arg]

RECURSIVE SumCounts(_, _)
SumCounts(gs, ids) ==
    IF ids = {} THEN 0
    ELSE LET id == CHOOSE i \in ids : TRUE
         IN  gs[id].count + SumCounts(gs, ids \ {id})

\* Number of entries held by all groups.
TotalCount(gs) == SumCounts(gs, DOMAIN gs)

\* addLogEntry raises a TypeError at group.add(entry).
addLogEntryThrows(gs, entry) ==
    getId(entry) \notin DOMAIN gs /\ getId(entry) \in ObjectPrototypeProps

\* addLogEntry without the assignment entry.index = group.count.
addLogEntry_NoIndex(gs, entry) ==
    LET id == getId(entry)
        group == IF id \in DOMAIN gs THEN gs[id] ELSE EosLogGroup(id)
    IN  [i \in DOMAIN gs \cup {id} |-> IF i = id THEN add(group, entry) ELSE gs[i]]

\* The group mapping after addLogEntry(entry) returns.
addLogEntry(gs, entry) ==
    LET id == getId(entry)
        group == IF id \in DOMAIN gs THEN gs[id] ELSE EosLogGroup(id)
        added == add(group, entry)
        indexed == [added EXCEPT !.items[Len(added.items)].index = added.count]
    IN  [i \in DOMAIN gs \cup {id} |-> IF i = id THEN indexed ELSE gs[i]]

\* The item a group received last.
LastItem(group) == group.items[Len(group.items)]

\* What a newLogEntry notification carries of a group and of the entry just
\* added to it: entry.index, group.count and group.items.length.
NewLogEntryPayload(group) ==
    [event |-> "newLogEntry", arg |-> group.id,
     index |-> LastItem(group).index,
     count |-> group.count,
     length |-> Len(group.items)]

\* The newLogEntry notification addLogEntry emits, once the group is updated
\* and the index assigned.
NewLogEntryEv(gs, entry) ==
    NewLogEntryPayload(addLogEntry(gs, entry)[getId(entry)])

\* The entry logSelf builds.
SelfEntry(msg) ==
    EosLogEntry(EosLoggingKey,
                Obj(("message" :> Str(msg)) @@ ("eos-id" :> Str("eos"))
                    @@ ("object" :> Undefined)))

\* logSelf(msg): the group mapping and the notifications.
logSelf(gs, msg) ==
    [groups |-> addLogEntry(gs, SelfEntry(msg)),
     emitted |-> <<Ev("log", msg), NewLogEntryEv(gs, SelfEntry(msg))>>]

\* WebSocket.close(): starts the closing handshake of a live transport.
CloseTransport(rs, s) ==
    IF rs[s] \in {"CONNECTING", "OPEN"} THEN [rs EXCEPT ![s] = "CLOSING"] ELSE rs

\* disconnect resetting this.groups when it closes the transport.
disconnect_ClearsGroups(c, s, gs, rs) ==
    LET logged == logSelf(gs, "Disconnecting")
        ems == logged.emitted \o <<Ev("disconnect", "")>>
    IN  IF c
        THEN IF s = NullSocket
             THEN [connected |-> FALSE, socket |-> s, groups |-> logged.groups,
                   readyState |-> rs, emitted |-> ems, err |-> TypeError]
             ELSE [connected |-> FALSE, socket |-> NullSocket,
                   groups |-> [id \in {} |-> EosLogGroup(id)],
                   readyState |-> CloseTransport(rs, s), emitted |-> ems, err |-> NoError]
        ELSE [connected |-> c, socket |-> s, groups |-> logged.groups,
              readyState |-> rs, emitted |-> ems, err |-> NoError]

\* disconnect(): the service after the call; err = TypeError when
\* this.socket.close() is reached with this.socket === null.
disconnect(c, s, gs, rs) ==
    LET logged == logSelf(gs, "Disconnecting")
        ems == logged.emitted \o <<Ev("disconnect", "")>>
    IN  IF c
        THEN IF s = NullSocket
             THEN [connected |-> FALSE, socket |-> s, groups |-> logged.groups,
                   readyState |-> rs, emitted |-> ems, err |-> TypeError]
             ELSE [connected |-> FALSE, socket |-> NullSocket, groups |-> logged.groups,
                   readyState |-> CloseTransport(rs, s), emitted |-> ems, err |-> NoError]
        ELSE [connected |-> c, socket |-> s, groups |-> logged.groups,
              readyState |-> rs, emitted |-> ems, err |-> NoError]

Uri == "ws://127.0.0.1:8090"

\* connect(server, port): disconnect, then a new transport in CONNECTING.
Connect(maxEntries, maxSockets) ==
    /\ TotalCount(groups) < maxEntries
    /\ Len(readyState) < maxSockets
    /\ LET d == disconnect(connected, socket, groups, readyState)
       IN  /\ connected' = d.connected
           /\ groups' = d.groups
           /\ err' = d.err
           /\ IF d.err = NoError
              THEN /\ socket' = Len(readyState) + 1
                   /\ readyState' = Append(d.readyState, "CONNECTING")
                   /\ emitted' = d.emitted \o <<Ev("log", "Connecting to " \o Uri)>>
              ELSE /\ socket' = d.socket
                   /\ readyState' = d.readyState
                   /\ emitted' = d.emitted
    /\ op' = [name |-> "connect", sock |-> NullSocket]
    /\ lastCall' = "connect"

\* An explicit disconnect() call.
Disconnect(maxEntries) ==
    /\ TotalCount(groups) < maxEntries
    /\ LET d == disconnect(connected, socket, groups, readyState)
       IN  /\ connected' = d.connected
           /\ socket' = d.socket
           /\ groups' = d.groups
           /\ readyState' = d.readyState
           /\ emitted' = d.emitted
           /\ err' = d.err
    /\ op' = [name |-> "disconnect", sock |-> NullSocket]
    /\ lastCall' = "disconnect"

\* An explicit logSelf(msg) call.
LogSelf(msg, maxEntries) ==
    /\ TotalCount(groups) < maxEntries
    /\ groups' = logSelf(groups, msg).groups
    /\ emitted' = logSelf(groups, msg).emitted
    /\ err' = NoError
    /\ op' = [name |-> "logSelf", sock |-> NullSocket]
    /\ UNCHANGED <<socket, connected, readyState, lastCall>>

\* socket.onopen of transport s.
OnOpen(s, maxEntries) ==
    /\ TotalCount(groups) < maxEntries
    /\ s \in 1..Len(readyState)
    /\ readyState[s] = "CONNECTING"
    /\ readyState' = [readyState EXCEPT ![s] = "OPEN"]
    /\ connected' = TRUE
    /\ groups' = logSelf(groups, "Successfully connected to " \o Uri).groups
    /\ emitted' = logSelf(groups, "Successfully connected to " \o Uri).emitted
                    \o <<Ev("connected", "")>>
    /\ err' = NoError
    /\ op' = [name |-> "onopen", sock |-> s]
    /\ UNCHANGED <<socket, lastCall>>

\* socket.onerror also dropping the connected flag.
OnError_Disconnects(s, maxEntries) ==
    /\ TotalCount(groups) < maxEntries
    /\ s \in 1..Len(readyState)
    /\ readyState[s] \in {"CONNECTING", "OPEN", "CLOSING"}
    /\ readyState' = [readyState EXCEPT ![s] = "FAILED"]
    /\ groups' = logSelf(groups, "Connection failed").groups
    /\ emitted' = logSelf(groups, "Connection failed").emitted
                    \o <<Ev("connectionError", "")>>
    /\ err' = NoError
    /\ op' = [name |-> "onerror", sock |-> s]
    /\ connected' = FALSE
    /\ UNCHANGED <<socket, lastCall>>

\* socket.onerror of transport s: the transport has failed, its close event
\* is still to come.
OnError(s, maxEntries) ==
    /\ TotalCount(groups) < maxEntries
    /\ s \in 1..Len(readyState)
    /\ readyState[s] \in {"CONNECTING", "OPEN", "CLOSING"}
    /\ readyState' = [readyState EXCEPT ![s] = "FAILED"]
    /\ groups' = logSelf(groups, "Connection failed").groups
    /\ emitted' = logSelf(groups, "Connection failed").emitted
                    \o <<Ev("connectionError", "")>>
    /\ err' = NoError
    /\ op' = [name |-> "onerror", sock |-> s]
    /\ UNCHANGED <<socket, connected, lastCall>>

\* socket.onclose of transport s: disconnect, bound to the service.
OnClose(s, maxEntries) ==
    /\ TotalCount(groups) < maxEntries
    /\ s \in 1..Len(readyState)
    /\ readyState[s] \in {"OPEN", "CLOSING", "FAILED"}
    /\ LET d == disconnect(connected, socket, groups,
                           [readyState EXCEPT ![s] = "CLOSED"])
       IN  /\ connected' = d.connected
           /\ socket' = d.socket
           /\ groups' = d.groups
           /\ readyState' = d.readyState
           /\ emitted' = d.emitted
           /\ err' = d.err
    /\ op' = [name |-> "onclose", sock |-> s]
    /\ UNCHANGED lastCall

\* The notifications onWebsocketMessage starts with.
PacketDebugs == <<Ev("debug", "Received packet"), Ev("debug", "packet")>>

\* Dispatch without the schema test: every frame is taken for a log frame.
Dispatch_NoSchemaCheck(gs, key, data) ==
    IF EosLogEntryThrows(key, data)
    THEN [groups |-> gs, emitted |-> PacketDebugs, err |-> TypeError]
    ELSE LET entry == EosLogEntry(key, data)
             ems == PacketDebugs \o <<Ev("debug", "entry")>>
         IN  IF addLogEntryThrows(gs, entry)
             THEN [groups |-> gs, emitted |-> ems, err |-> TypeError]
             ELSE [groups |-> addLogEntry(gs, entry),
                   emitted |-> ems \o <<NewLogEntryEv(gs, entry)>>,
                   err |-> NoError]

\* onWebsocketMessage from `if (key.schema === 'log')` on, for a parsed key
\* and the body text: the group mapping, the notifications and the error.
Dispatch(gs, key, data) ==
    IF key.schema = "log"
    THEN IF EosLogEntryThrows(key, data)
         THEN [groups |-> gs, emitted |-> PacketDebugs, err |-> TypeError]
         ELSE LET entry == EosLogEntry(key, data)
                  ems == PacketDebugs \o <<Ev("debug", "entry")>>
              IN  IF addLogEntryThrows(gs, entry)
                  THEN [groups |-> gs, emitted |-> ems, err |-> TypeError]
                  ELSE [groups |-> addLogEntry(gs, entry),
                        emitted |-> ems \o <<NewLogEntryEv(gs, entry)>>,
                        err |-> NoError]
    ELSE [groups |-> logSelf(gs, "Unknown schema " \o key.schema).groups,
          emitted |-> PacketDebugs
                      \o logSelf(gs, "Unknown schema " \o key.schema).emitted,
          err |-> NoError]

\* onWebsocketMessage reporting a bad header through logSelf before failing.
onWebsocketMessage_LogsBadKey(gs, packet) ==
    IF ~EosKeyValid(packet.header)
    THEN [groups |-> logSelf(gs, ParseError).groups,
          emitted |-> PacketDebugs \o logSelf(gs, ParseError).emitted,
          err |-> ParseError]
    ELSE Dispatch(gs, EosKey(packet.header), Str(packet.body))

\* onWebsocketMessage(packet) for packet.data = header, "\n", body: new
\* EosKey(header) throws out of the handler, or the frame is dispatched.
onWebsocketMessage(gs, packet) ==
    IF ~EosKeyValid(packet.header)
    THEN [groups |-> gs, emitted |-> PacketDebugs, err |-> ParseError]
    ELSE Dispatch(gs, EosKey(packet.header), Str(packet.body))

\* socket.onmessage of transport s.
OnMessage(s, packet, maxEntries) ==
    /\ TotalCount(groups) < maxEntries
    /\ s \in 1..Len(readyState)
    /\ readyState[s] = "OPEN"
    /\ LET r == onWebsocketMessage(groups, packet)
       IN  /\ groups' = r.groups
           /\ emitted' = r.emitted
           /\ err' = r.err
    /\ op' = [name |-> "onmessage", sock |-> s, packet |-> packet]
    /\ UNCHANGED <<socket, connected, readyState, lastCall>>

(***************************************************************************)
(* Inputs.                                                                 *)
(***************************************************************************)
Frame(header, body) == [header |-> header, body |-> body]

KeyPlain == <<"log", ":", "/", "/", "svcA">>
KeyWebApi == <<"log", ":", "/", "/", "svcA", ":", "web", ":", "api">>
KeyApiDb == <<"log", ":", "/", "/", "svcA", ":", "api", ":", "db">>
KeyDb == <<"log", ":", "/", "/", "svcA", ":", "db">>
KeyWeb == <<"log", ":", "/", "/", "svcA", ":", "web">>
KeyMetrics == <<"metrics", ":", "/", "/", "svcA", ":", "web">>
KeyUpper == <<"LOG", ":", "/", "/", "svcA">>
KeyNoSlashes == <<"log", ":", "svcA", ":", "web">>
KeyNoSchema == <<"svcA">>

Frames ==
    { Frame(KeyWebApi, BodyG1Message), Frame(KeyApiDb, BodyG1Sql),
      Frame(KeyPlain, BodyG1Message), Frame(KeyDb, BodyG1Message),
      Frame(KeyWebApi, BodyDefault), Frame(KeyPlain, BodyG2Perf),
      Frame(KeyWebApi, BodyEos), Frame(KeyWeb, BodyG1Message),
      Frame(KeyPlain, BodyGarbage), Frame(KeyPlain, BodyEmpty),
      Frame(KeyPlain, BodyNull), Frame(KeyPlain, BodyNumber),
      Frame(KeyPlain, BodyString), Frame(KeyPlain, BodyProto),
      Frame(KeyMetrics, BodyG1Message), Frame(KeyUpper, BodyDefault),
      Frame(KeyNoSlashes, BodyG1Message), Frame(KeyNoSchema, BodyGarbage) }

LifecycleFrames ==
    { Frame(KeyWebApi, BodyG1Message), Frame(KeyMetrics, BodyG1Message),
      Frame(KeyNoSlashes, BodyG1Message) }

StatsFrames ==
    { Frame(KeyWebApi, BodyG1Message), Frame(KeyApiDb, BodyG1Sql),
      Frame(KeyPlain, BodyG2Perf), Frame(KeyPlain, BodyFalsyFields),
      Frame(KeyPlain, BodyTimeOnly), Frame(KeyPlain, BodyNumber) }

SelfMessages == {"Reading previous success dsn " \o Uri}

(***************************************************************************)
(* Specifications.                                                         *)
(***************************************************************************)
Init ==
    /\ socket = NullSocket
    /\ connected = FALSE
    /\ groups = [id \in {} |-> EosLogGroup(id)]
    /\ readyState = <<>>
    /\ op = [name |-> "new", sock |-> NullSocket]
    /\ err = NoError
    /\ emitted = <<>>
    /\ lastCall = "none"

\* Ingestion: one transport, the full set of frames.
Next ==
    \/ Connect(MaxEntries, MaxSockets)
    \/ Disconnect(MaxEntries)
    \/ \E msg \in SelfMessages : LogSelf(msg, MaxEntries)
    \/ \E s \in 1..MaxSockets : OnOpen(s, MaxEntries)
    \/ \E s \in 1..MaxSockets : OnError(s, MaxEntries)
    \/ \E s \in 1..MaxSockets : OnClose(s, MaxEntries)
    \/ \E s \in 1..MaxSockets, packet \in Frames : OnMessage(s, packet, MaxEntries)

Spec == Init /\ [][Next]_vars

\* Connection lifecycle: several transports, a few frames.
NextLifecycle ==
    \/ Connect(MaxLifecycleEntries, MaxLifecycleSockets)
    \/ Disconnect(MaxLifecycleEntries)
    \/ \E s \in 1..MaxLifecycleSockets : OnOpen(s, MaxLifecycleEntries)
    \/ \E s \in 1..MaxLifecycleSockets : OnError(s, MaxLifecycleEntries)
    \/ \E s \in 1..MaxLifecycleSockets : OnClose(s, MaxLifecycleEntries)
    \/ \E s \in 1..MaxLifecycleSockets, packet \in LifecycleFrames :
          OnMessage(s, packet, MaxLifecycleEntries)

SpecLifecycle == Init /\ [][NextLifecycle]_vars

\* Group statistics: one transport, frames whose payloads carry the
\* exception, sql, time and perf fields.
NextStats ==
    \/ Connect(MaxEntries, MaxSockets)
    \/ Disconnect(MaxEntries)
    \/ \E s \in 1..MaxSockets : OnOpen(s, MaxEntries)
    \/ \E s \in 1..MaxSockets : OnError(s, MaxEntries)
    \/ \E s \in 1..MaxSockets : OnClose(s, MaxEntries)
    \/ \E s \in 1..MaxSockets, packet \in StatsFrames : OnMessage(s, packet, MaxEntries)

SpecStats == Init /\ [][NextStats]_vars

\* Key sources: a head, followed by up to MaxKeyTail tokens.
KeyHeads == { <<"a", ":", "/", "/", "b">>, <<"LOG", ":", "/", "/", "svcA">>,
              <<"a", ":", "b">> }
KeyTailTokens == {":", "b", "c", " "}
KeyTails == UNION { [1..n -> KeyTailTokens] : n \in 0..MaxKeyTail }
KeySources == { head \o tail : head \in KeyHeads, tail \in KeyTails }

\* A fresh module with a key source at hand.
InitKey ==
    /\ socket = NullSocket
    /\ connected = FALSE
    /\ groups = [id \in {} |-> EosLogGroup(id)]
    /\ readyState = <<>>
    /\ op \in {[name |-> "source", sock |-> NullSocket, source |-> source] :
                  source \in KeySources}
    /\ err = NoError
    /\ emitted = <<>>
    /\ lastCall = "none"

\* new EosKey(source) on the source at hand: the key, or the error it throws.
ParseKey ==
    /\ op.name = "source"
    /\ IF EosKeyValid(op.source)
       THEN /\ op' = [name |-> "EosKey", sock |-> NullSocket, source |-> op.source,
                      key |-> EosKey(op.source)]
            /\ err' = NoError
       ELSE /\ op' = [name |-> "EosKey", sock |-> NullSocket, source |-> op.source]
            /\ err' = ParseError
    /\ emitted' = <<>>
    /\ UNCHANGED <<socket, connected, groups, readyState, lastCall>>

\* The key parser alone, on every key source.
NextKey == ParseKey

SpecKey == InitKey /\ [][NextKey]_vars

(***************************************************************************)
(* Properties.                                                             *)
(***************************************************************************)
Elems(a) == {a[i] : i \in 1..Len(a)}


\* The group with this id before a step: a fresh one when the step creates it.
Before(id) == IF id \in DOMAIN groups THEN groups[id] ELSE EosLogGroup(id)

\* The step has called add on the group with this id.
Added(id) == id \in DOMAIN groups' /\ groups'[id].count = Before(id).count + 1

\* Number of newLogEntry notifications for a group among the notifications.
RECURSIVE NewLogEntries(_, _)
NewLogEntries(ems, id) ==
    IF ems = <<>> THEN 0
    ELSE (IF Head(ems).event = "newLogEntry" /\ Head(ems).arg = id THEN 1 ELSE 0)
         + NewLogEntries(Tail(ems), id)

\* C1: adding an entry whose key carries no tags leaves sharedTags as it
\* was, null included: untagged entries are excluded from the intersection.
C1_UntaggedAddKeepsSharedTags ==
    [][\A id \in DOMAIN groups' :
          (Added(id) /\ Len(LastItem(groups'[id]).key.tags.v) = 0)
             => groups'[id].sharedTags = Before(id).sharedTags]_vars

\* C2: once sharedTags is an array it stays one and never gains a tag: after
\* every step it is a subset of what it was, so an empty one stays empty.
C2_SharedTagsNarrow ==
    [][\A id \in DOMAIN groups :
          groups[id].sharedTags.t = "array"
             => /\ id \in DOMAIN groups'
                /\ groups'[id].sharedTags.t = "array"
                /\ Elems(groups'[id].sharedTags.v) \subseteq Elems(groups[id].sharedTags.v)]_vars

\* C2 witness: a group whose shared tags were narrowed to a non-empty set.
C2_Witness ==
    \E id \in DOMAIN groups :
        /\ groups[id].count >= 2
        /\ groups[id].sharedTags = Arr(<<"api">>)

\* C3: the k-th entry of every group has index k, so the indexes of a group
\* are exactly 1..count in arrival order.
C3_IndexIsPosition ==
    \A id \in DOMAIN groups :
        /\ Len(groups[id].items) = groups[id].count
        /\ \A k \in 1..Len(groups[id].items) : groups[id].items[k].index = k

\* C3 witness: one group holds a self-log entry and an entry of a log frame.
C3_Witness ==
    \E id \in DOMAIN groups :
        /\ groups[id].count >= 3
        /\ \E k \in 1..Len(groups[id].items) : groups[id].items[k].data.t = "string"
        /\ \E k \in 1..Len(groups[id].items) : groups[id].items[k].data.t = "object"

\* C10: count equals items.length in every group; every add call (one per
\* newLogEntry notification) raises count by one and appends one entry after
\* the ones already held, and nothing else changes count or items.
C10_CountIsLength ==
    [][\A id \in DOMAIN groups' :
          /\ groups'[id].count = Len(groups'[id].items)
          /\ groups'[id].count = Before(id).count + NewLogEntries(emitted', id)
          /\ SubSeq(groups'[id].items, 1, Before(id).count) = Before(id).items]_vars

\* C10 witness: a group after three add calls.
C10_Witness ==
    \E id \in DOMAIN groups : groups[id].count = 3 /\ Len(groups[id].items) = 3

\* Whether the notifications hold one with this name and argument.
Emits(ems, name, arg) ==
    \E i \in 1..Len(ems) : ems[i].event = name /\ ems[i].arg = arg

\* Number of newLogEntry notifications among the notifications.
RECURSIVE CountNewLogEntry(_)
CountNewLogEntry(ems) ==
    IF ems = <<>> THEN 0
    ELSE (IF Head(ems).event = "newLogEntry" THEN 1 ELSE 0)
         + CountNewLogEntry(Tail(ems))

\* C4: every disconnect() call completes without error, logs "Disconnecting"
\* and emits disconnect; when connected it closes the transport and clears
\* the handle and the flag; when disconnected it changes neither.
C4_DisconnectSafe ==
    [][op'.name = "disconnect"
          => /\ err' = NoError
             /\ Emits(emitted', "log", "Disconnecting")
             /\ Emits(emitted', "disconnect", "")
             /\ connected => (~connected' /\ socket' = NullSocket
                              /\ readyState'[socket] \notin {"CONNECTING", "OPEN"})
             /\ ~connected => (connected' = connected /\ socket' = socket)]_vars

\* C5: an open or close event of a transport that is no longer the current
\* handle changes neither the connected flag nor the current handle, and
\* does not close the current transport.
C5_OrphanCallbacksHarmless ==
    [][(op'.name \in {"onopen", "onclose"} /\ op'.sock # socket)
          => /\ connected' = connected
             /\ socket' = socket
             /\ socket # NullSocket => readyState'[socket] = readyState[socket]]_vars

\* C6: after an explicit disconnect(), whatever the state it was issued in,
\* the service is disconnected until the next connect call.
C6_DisconnectedUntilConnect == lastCall = "disconnect" => ~connected

\* Headers that are no valid key: the "://" is missing.
MalformedHeaders == {KeyNoSlashes, KeyNoSchema}

\* C7: a frame with a malformed header ends in the parse error, mutates no
\* group, emits no newLogEntry and leaves the connection as it was, so that
\* later frames are handled as if it had never arrived.
C7_MalformedFrameDropped ==
    [][(op'.name = "onmessage" /\ op'.packet.header \in MalformedHeaders)
          => /\ err' = ParseError
             /\ CountNewLogEntry(emitted') = 0
             /\ UNCHANGED <<groups, connected, socket, readyState, lastCall>>]_vars

\* C7 witness: a malformed frame has arrived after entries were grouped.
C7_Witness ==
    /\ op.name = "onmessage"
    /\ op.packet.header \in MalformedHeaders
    /\ err = ParseError
    /\ "g1" \in DOMAIN groups

\* Headers with the schema log.
LogHeaders == {KeyPlain, KeyWebApi, KeyApiDb, KeyDb, KeyWeb}

\* C8: for a log frame with any body, building the entry never raises, the
\* entry's structured payload is a mapping, its message is the payload's
\* message or else the raw body, and exactly one entry joins one group.
C8_AnyBodyYieldsOneEntry ==
    [][(op'.name = "onmessage" /\ op'.packet.header \in LogHeaders)
          => /\ err' = NoError
             /\ CountNewLogEntry(emitted') = 1
             /\ TotalCount(groups') = TotalCount(groups) + 1
             /\ \E id \in DOMAIN groups' :
                   /\ Added(id)
                   /\ LastItem(groups'[id]).object.t = "object"
                   /\ LastItem(groups'[id]).message
                        = IF "message" \in DOMAIN LastItem(groups'[id]).object.f
                          THEN LastItem(groups'[id]).object.f["message"]
                          ELSE Str(op'.packet.body)]_vars

\* Headers whose schema is not log, with the schema each names.
UnknownSchema == (KeyMetrics :> "metrics") @@ (KeyUpper :> "LOG")

\* C9 as stated: a frame with an unknown schema mutates no group, yields one
\* self-log entry and leaves the connection unchanged.
C9_UnknownSchemaNoGroupMutation ==
    [][(op'.name = "onmessage" /\ op'.packet.header \in DOMAIN UnknownSchema)
          => /\ groups' = groups
             /\ CountNewLogEntry(emitted') = 1
             /\ UNCHANGED <<connected, socket, readyState>>]_vars

\* C9 amended: a frame with an unknown schema mutates no group but the
\* self-log group eos, which gains exactly one entry reporting the schema;
\* no error is raised and the connection is unchanged.
C9_UnknownSchemaOnlySelfLog ==
    [][(op'.name = "onmessage" /\ op'.packet.header \in DOMAIN UnknownSchema)
          => /\ err' = NoError
             /\ DOMAIN groups' = DOMAIN groups \cup {"eos"}
             /\ \A id \in DOMAIN groups \ {"eos"} : groups'[id] = groups[id]
             /\ groups'["eos"].count = Before("eos").count + 1
             /\ LastItem(groups'["eos"]).key = EosLoggingKey
             /\ LastItem(groups'["eos"]).message
                  = Str("Unknown schema " \o UnknownSchema[op'.packet.header])
             /\ CountNewLogEntry(emitted') = 1
             /\ NewLogEntries(emitted', "eos") = 1
             /\ Emits(emitted', "log", "Unknown schema " \o UnknownSchema[op'.packet.header])
             /\ UNCHANGED <<connected, socket, readyState>>]_vars

\* C9 witness: an unknown-schema frame was reported while another group exists.
C9_Witness ==
    /\ op.name = "onmessage"
    /\ op.packet.header = KeyMetrics
    /\ "g1" \in DOMAIN groups
    /\ LastItem(groups["eos"]).message = Str("Unknown schema metrics")

\* The entry's structured payload is an object holding the field.
HasField(entry, name) == entry.object.t = "object" /\ name \in DOMAIN entry.object.f

\* The entry's structured payload holds the field with a truthy value.
TruthyField(entry, name) == HasField(entry, name) /\ Truthy(entry.object.f[name])

\* C11 as stated: errorsCount and sqlCount count the entries whose payload
\* contains an exception / sql field, whatever its value.
C11_CountsByPresence ==
    \A id \in DOMAIN groups :
        /\ groups[id].errorsCount
             = Cardinality({k \in 1..Len(groups[id].items) :
                               HasField(groups[id].items[k], "exception")})
        /\ groups[id].sqlCount
             = Cardinality({k \in 1..Len(groups[id].items) :
                               HasField(groups[id].items[k], "sql")})

\* C11 amended: errorsCount and sqlCount count the entries whose payload
\* holds an exception / sql field with a truthy value.
C11_CountsByTruthiness ==
    \A id \in DOMAIN groups :
        /\ groups[id].errorsCount
             = Cardinality({k \in 1..Len(groups[id].items) :
                               TruthyField(groups[id].items[k], "exception")})
        /\ groups[id].sqlCount
             = Cardinality({k \in 1..Len(groups[id].items) :
                               TruthyField(groups[id].items[k], "sql")})

\* C11 witness: a group holds an entry with an exception it counted and an
\* entry whose exception and sql fields are falsy, while another counted sql.
C11_Witness ==
    /\ \E id \in DOMAIN groups :
          /\ groups[id].errorsCount = 1
          /\ \E k \in 1..Len(groups[id].items) :
                /\ HasField(groups[id].items[k], "exception")
                /\ ~TruthyField(groups[id].items[k], "exception")
    /\ \E id \in DOMAIN groups : groups[id].sqlCount = 1

\* The group id each body names: its eos-id, or the default id without one.
ExpectedGroup ==
    (BodyG1Message :> "g1") @@ (BodyG1Sql :> "g1") @@ (BodyG2Perf :> "g2")
    @@ (BodyEos :> "eos") @@ (BodyProto :> "constructor")
    @@ (BodyDefault :> EosDefaultId) @@ (BodyGarbage :> EosDefaultId)
    @@ (BodyEmpty :> EosDefaultId)

\* C12: the entry of every log frame joins the group named by its eos-id,
\* or the default group without one, and the group held under an id has
\* that id (one group per id, created on first use and reused).
C12_RoutedByEosId ==
    [][/\ \A id \in DOMAIN groups' : groups'[id].id = id
       /\ (op'.name = "onmessage" /\ op'.packet.header \in LogHeaders
             /\ op'.packet.body \in DOMAIN ExpectedGroup)
            => /\ Added(ExpectedGroup[op'.packet.body])
               /\ LastItem(groups'[ExpectedGroup[op'.packet.body]]).data
                    = Str(op'.packet.body)
               /\ \A id \in DOMAIN groups \ {ExpectedGroup[op'.packet.body]} :
                     groups'[id] = groups[id]]_vars

\* C13: whatever the call or transport event, every group stays in the
\* mapping, its count does not decrease and the entries it held stay where
\* they were.
C13_GroupsPreserved ==
    [][\A id \in DOMAIN groups :
          /\ id \in DOMAIN groups'
          /\ groups'[id].count >= groups[id].count
          /\ Len(groups'[id].items) >= Len(groups[id].items)
          /\ \A k \in 1..Len(groups[id].items) :
                groups'[id].items[k] = groups[id].items[k]]_vars

\* C13 witness: a disconnect has closed the transport of a session that had
\* grouped a frame's entry, and the group is still held.
C13_Witness ==
    /\ op.name = "disconnect"
    /\ ~connected
    /\ socket = NullSocket
    /\ "g1" \in DOMAIN groups
    /\ groups["g1"].count >= 1

\* Every entry of the group carries at least one tag.
AllTagged(group) ==
    \A k \in 1..Len(group.items) : Len(group.items[k].key.tags.v) > 0

\* The tags every entry of a non-empty group carries.
CommonTags(group) ==
    {tag \in Elems(group.items[1].key.tags.v) :
        \A k \in 1..Len(group.items) : tag \in Elems(group.items[k].key.tags.v)}

\* C14: in a group fed only tagged entries, sharedTags is the intersection
\* of the tag sets of all its entries and getSharedTags returns it; for a
\* group whose sharedTags is still null getSharedTags is the empty sequence.
C14_SharedTagsIsIntersection ==
    \A id \in DOMAIN groups :
        /\ getSharedTags(EosLogGroup(id)) = Arr(<<>>)
        /\ (groups[id].count >= 1 /\ AllTagged(groups[id]))
             => /\ groups[id].sharedTags.t = "array"
                /\ Elems(groups[id].sharedTags.v) = CommonTags(groups[id])
                /\ getSharedTags(groups[id]) = groups[id].sharedTags

\* C14 witness: log://svcA:web then log://svcA:web:api for the same eos-id
\* gave one group with count 2 and sharedTags ["web"].
C14_Witness ==
    /\ "g1" \in DOMAIN groups
    /\ groups["g1"].count = 2
    /\ groups["g1"].items[1].key.src = KeyWeb
    /\ groups["g1"].items[2].key.src = KeyWebApi
    /\ getSharedTags(groups["g1"]) = Arr(<<"web">>)

\* Position of the first ":" of a source, 0 without one.
FirstColon(src) ==
    IF \E i \in 1..Len(src) : src[i] = ":"
    THEN CHOOSE i \in 1..Len(src) : src[i] = ":" /\ \A j \in 1..(i - 1) : src[j] # ":"
    ELSE 0

\* The source has the form schema://identifier[:tag]*, without whitespace.
IsKeyForm(src) ==
    LET p == FirstColon(src)
    IN  /\ \A i \in 1..Len(src) : src[i] # " "
        /\ p >= 2
        /\ \A i \in 1..(p - 1) : src[i] # "/"
        /\ Len(src) >= p + 3
        /\ src[p + 1] = "/" /\ src[p + 2] = "/"
        /\ src[p + 3] # ":"

\* Positions where a token run between ":" separators starts and ends.
RunStarts(toks) ==
    {i \in 1..Len(toks) : toks[i] # ":" /\ (i = 1 \/ toks[i - 1] = ":")}

RunEnd(toks, i) ==
    CHOOSE j \in i..Len(toks) :
        /\ \A m \in i..j : toks[m] # ":"
        /\ (j = Len(toks) \/ toks[j + 1] = ":")

\* The k-th run of a token sequence, in source order, as a string.
KthRun(toks, k) ==
    LET i == CHOOSE x \in RunStarts(toks) :
                 Cardinality({y \in RunStarts(toks) : y < x}) = k - 1
    IN  Concat(SubSeq(toks, i, RunEnd(toks, i)))

\* C15: for a source of the form schema://identifier[:tag]* the key has the
\* schema before "://", the identifier up to the first ":" after it, and as
\* tags the non-empty ":"-separated tokens that follow, in source order,
\* duplicates kept; no tag when nothing follows the identifier.
C15_KeyParsed ==
    (op.name = "EosKey" /\ IsKeyForm(op.source))
       => LET p == FirstColon(op.source)
              after == SubSeq(op.source, p + 3, Len(op.source))
              n == Cardinality(RunStarts(after))
          IN  /\ err = NoError
              /\ op.key.schema = Concat(SubSeq(op.source, 1, p - 1))
              /\ op.key.key = KthRun(after, 1)
              /\ Len(op.key.tags.v) = n - 1
              /\ \A k \in 2..n : op.key.tags.v[k - 1] = KthRun(after, k)

\* C15 witness: a://b::c was parsed, its tags are [c].
C15_Witness ==
    /\ op.name = "EosKey"
    /\ op.source = <<"a", ":", "/", "/", "b", ":", ":", "c">>
    /\ err = NoError
    /\ op.key.tags = Arr(<<"c">>)

\* Calls and callbacks that log through logSelf.
SelfLogOps == {"connect", "disconnect", "logSelf", "onopen", "onerror", "onclose"}

\* The step has built an entry and passed it to addLogEntry.
EntryPassed ==
    \/ op'.name \in SelfLogOps
    \/ /\ op'.name = "onmessage"
       /\ \/ op'.packet.header \in DOMAIN UnknownSchema
          \/ /\ op'.packet.header \in LogHeaders
             /\ op'.packet.body \in DOMAIN ExpectedGroup

\* C16: addLogEntry emits exactly one newLogEntry per entry, after the group
\* is updated and the index assigned: every entry passed is notified, there
\* are as many notifications as entries added, and when one is emitted the
\* entry is the last of the group's items and its index the group's count.
C16_OneNotificationAfterUpdate ==
    [][/\ EntryPassed => CountNewLogEntry(emitted') >= 1
       /\ CountNewLogEntry(emitted') = TotalCount(groups') - TotalCount(groups)
       /\ \A i \in 1..Len(emitted') :
             emitted'[i].event = "newLogEntry"
                => /\ emitted'[i].arg \in DOMAIN groups'
                   /\ emitted'[i].length = emitted'[i].count
                   /\ emitted'[i].index = emitted'[i].count
                   /\ emitted'[i].length <= Len(groups'[emitted'[i].arg].items)
                   /\ groups'[emitted'[i].arg].items[emitted'[i].length].index
                        = emitted'[i].index]_vars

\* C17: socket.onerror leaves the connected flag and the socket handle as
\* they are, throws nothing, and does exactly this: one self-log entry
\* "Connection failed" in the eos group, then one connectionError.
C17_OnErrorOnlyReports ==
    [][op'.name = "onerror"
         => /\ connected' = connected
            /\ socket' = socket
            /\ err' = NoError
            /\ Len(emitted') = 3
            /\ emitted'[1] = Ev("log", "Connection failed")
            /\ emitted'[2].event = "newLogEntry"
            /\ emitted'[2].arg = "eos"
            /\ LastItem(groups'["eos"]).message = Str("Connection failed")
            /\ emitted'[3] = Ev("connectionError", "")
            /\ DOMAIN groups' = DOMAIN groups \cup {"eos"}
            /\ groups'["eos"].count = Before("eos").count + 1
            /\ emitted'[2].index = groups'["eos"].count
            /\ \A id \in DOMAIN groups \ {"eos"} : groups'[id] = groups[id]]_vars

\* A transport has reported an error while the service is connected.
C17_Witness ==
    /\ op.name = "onerror"
    /\ connected
    /\ socket # NullSocket

\* The entry's perf value, 0 when its payload carries none.
PerfOf(entry) ==
    IF HasField(entry, "perf") /\ entry.object.f["perf"].t = "number"
    THEN entry.object.f["perf"].v
    ELSE 0

\* Sum of the perf values of the entries that carry one.
RECURSIVE PerfSum(_)
PerfSum(items) ==
    IF items = <<>> THEN 0
    ELSE PerfOf(items[Len(items)]) + PerfSum(SubSeq(items, 1, Len(items) - 1))

\* C18: an add raises performance by the entry's perf exactly when the
\* payload has a time field and leaves it alone otherwise, and performance
\* is always the sum of the perf values of the group's entries that carry one.
C18_PerformanceIsPerfSum ==
    [][\A id \in DOMAIN groups' :
          /\ Added(id)
               => IF HasField(LastItem(groups'[id]), "time")
                  THEN groups'[id].performance
                         = JsAdd(Before(id).performance,
                                 Num(PerfOf(LastItem(groups'[id]))))
                  ELSE groups'[id].performance = Before(id).performance
          /\ groups'[id].performance = Num(PerfSum(groups'[id].items))]_vars

\* C19: whatever the interleaving of connect, disconnect and the transport
\* callbacks, a connected service holds a socket, and no call or callback
\* reaches this.socket.close() with this.socket === null.
C19_ConnectedHasSocket ==
    /\ connected => socket # NullSocket
    /\ err # TypeError

\* C20: every entry passed to addLogEntry, from a log frame or from logSelf,
\* lands in exactly one group; the counts of all groups grow by the number
\* of newLogEntry notifications, and a group in the mapping has count >= 1.
C20_EveryEntryInOneGroup ==
    [][/\ (EntryPassed /\ op'.name \in {"onmessage", "logSelf"})
            => /\ Cardinality({id \in DOMAIN groups' : Added(id)}) = 1
               /\ \A id \in DOMAIN groups : ~Added(id) => groups'[id] = groups[id]
       /\ TotalCount(groups') = TotalCount(groups) + CountNewLogEntry(emitted')
       /\ \A id \in DOMAIN groups' : groups'[id].count >= 1]_vars

====
